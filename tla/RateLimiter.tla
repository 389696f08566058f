---------------------------- MODULE RateLimiter -----------------------------
(***************************************************************************)
(* RateLimiter.check (shared/rate_limit.py): a deque of time stamps for    *)
(* each capability and tenant, pruned and tested under a lock.  The clock   *)
(* is read before the lock is taken, so that stamps get into the deque out  *)
(* of order and late; MaxDelay bounds how late, in ticks of the clock.      *)
(***************************************************************************)
EXTENDS Integers, Sequences

CONSTANTS Caller,       \* calls of check
          Key,          \* "tenant:capability"
          KeyOf,        \* KeyOf[c]: the key that c is counted under
          Window,       \* WINDOW_S
          MaxRequests,  \* MAX_REQUESTS_PER_WINDOW
          MaxDelay,     \* how long a caller may wait for the lock
          MaxTime       \* bound of the clock

VARIABLES clock,     \* time.monotonic()
          stamp,     \* `now' of each caller, -1 before and after
          hits,      \* _hits: the deque of each key
          admitted   \* history: when calls were let through, per key

limiterVars == <<clock, stamp, hits, admitted>>

Init ==
    /\ clock = 0
    /\ stamp = [c \in Caller |-> -1]
    /\ hits = [k \in Key |-> <<>>]
    /\ admitted = [k \in Key |-> <<>>]

Late(c) == stamp[c] # -1 /\ clock - stamp[c] >= MaxDelay

Tick ==
    /\ clock < MaxTime
    /\ \A c \in Caller : ~Late(c)
    /\ clock' = clock + 1
    /\ UNCHANGED <<stamp, hits, admitted>>

ReadClock(c) ==
    /\ stamp' = [stamp EXCEPT ![c] = clock]
    /\ UNCHANGED <<clock, hits, admitted>>

\* The locked part.  The loop of popleft stops at the first stamp that is young
\* enough: it takes the first n out of the deque.
PopsOff(c, n) ==
    LET deque == hits[KeyOf[c]] IN
    /\ \A i \in 1..n : stamp[c] - deque[i] > Window
    /\ n < Len(deque) => stamp[c] - deque[n + 1] <= Window

Kept(c, n) == SubSeq(hits[KeyOf[c]], n + 1, Len(hits[KeyOf[c]]))

\* Mutant: one call too many.
AdmitOneMore(c) ==
    /\ stamp[c] # -1
    /\ \E n \in 0..Len(hits[KeyOf[c]]) :
          /\ PopsOff(c, n)
          /\ Len(hits[KeyOf[c]]) - n <= MaxRequests
          /\ hits' = [hits EXCEPT ![KeyOf[c]] = Append(Kept(c, n), stamp[c])]
    /\ admitted' = [admitted EXCEPT ![KeyOf[c]] = Append(@, clock)]
    /\ stamp' = [stamp EXCEPT ![c] = -1]
    /\ UNCHANGED clock

Admit(c) ==
    /\ stamp[c] # -1
    /\ \E n \in 0..Len(hits[KeyOf[c]]) :
          /\ PopsOff(c, n)
          /\ Len(hits[KeyOf[c]]) - n < MaxRequests
          /\ hits' = [hits EXCEPT ![KeyOf[c]] = Append(Kept(c, n), stamp[c])]
    /\ admitted' = [admitted EXCEPT ![KeyOf[c]] = Append(@, clock)]
    /\ stamp' = [stamp EXCEPT ![c] = -1]
    /\ UNCHANGED clock

\* RateLimitExceeded.
Refuse(c) ==
    /\ stamp[c] # -1
    /\ \E n \in 0..Len(hits[KeyOf[c]]) :
          /\ PopsOff(c, n)
          /\ Len(hits[KeyOf[c]]) - n >= MaxRequests
          /\ hits' = [hits EXCEPT ![KeyOf[c]] = Kept(c, n)]
    /\ stamp' = [stamp EXCEPT ![c] = -1]
    /\ UNCHANGED <<clock, admitted>>

\* Of any MaxRequests + 1 calls let through for a key, the first and the last are
\* more than a window apart, less the time a caller may wait for the lock
\* (rate_limit.py:31-41).
RateHonoured ==
    \A k \in Key : \A i \in DOMAIN admitted[k] :
        i + MaxRequests \in DOMAIN admitted[k] =>
            admitted[k][i + MaxRequests] - admitted[k][i] > Window - MaxDelay
=============================================================================
