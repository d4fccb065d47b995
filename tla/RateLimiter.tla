---------------------------- MODULE RateLimiter ----------------------------
(***************************************************************************)
(* The rate limit of a node's peers                                        *)
(* (src/adapter/rate_limit_middleware.py): per Authorization header, the   *)
(* times of the requests admitted in the last minute.                      *)
(*                                                                         *)
(* The list of times is never read in order: it is filtered and counted.   *)
(* So it is a set of stamps here, each with a number of its own, because   *)
(* several requests may come in one instant.                               *)
(*                                                                         *)
(* From the reading of the bucket to its update the middleware holds its   *)
(* lock and awaits nothing: a request is one step.  A limit of 0 disables  *)
(* it, and is not modelled further than that.                              *)
(***************************************************************************)
EXTENDS Integers, FiniteSets

CONSTANTS
    Headers,    \* Authorization header values, "anonymous" for none
    RateLimit,  \* rate_limit: requests per window
    Window,     \* 60 seconds, in ticks of the model's clock
    LastTick    \* bound on the clock

ASSUME LimiterAssumption ==
    /\ RateLimit \in Nat \ {0}
    /\ Window \in Nat \ {0}
    /\ LastTick \in Nat

VARIABLES
    now,        \* time.time()
    buckets,    \* _buckets: header -> the stamps of admitted requests
    admitted,   \* history: header -> the stamps of all admitted requests
    refusedAt   \* history: header -> when it was last refused, if it has been
                \* silent since, or Never

vars == <<now, buckets, admitted, refusedAt>>

Never == -1

Stamp == [at : 0 .. LastTick, nr : Nat]

TypeOK ==
    /\ now \in 0 .. LastTick
    /\ buckets \in [Headers -> SUBSET Stamp]
    /\ admitted \in [Headers -> SUBSET Stamp]
    /\ refusedAt \in [Headers -> {Never} \cup 0 .. LastTick]

Init ==
    /\ now = 0
    /\ buckets = [h \in Headers |-> {}]
    /\ admitted = [h \in Headers |-> {}]
    /\ refusedAt = [h \in Headers |-> Never]

Tick ==
    /\ now < LastTick
    /\ now' = now + 1
    /\ UNCHANGED <<buckets, admitted, refusedAt>>

-----------------------------------------------------------------------------
\* Slip: a request of exactly one window ago still counts.
RecentInclusive(stamps) == {s \in stamps : s.at >= now - Window}

\* The bucket without the times that have left the window.
Recent(stamps) == {s \in stamps : s.at > now - Window}

\* Slip: the limit is exceeded by one before it bites.
AtLimitLate(h) == Cardinality(Recent(buckets[h])) > RateLimit

AtLimit(h) == Cardinality(Recent(buckets[h])) >= RateLimit

\* Slip: refused requests count too.
RefuseCounting(h) ==
    /\ AtLimit(h)
    /\ buckets' = [buckets EXCEPT ![h] = Recent(@) \cup {[at |-> now, nr |-> 0]}]
    /\ refusedAt' = [refusedAt EXCEPT ![h] = now]
    /\ UNCHANGED <<now, admitted>>

\* HTTP 429: the bucket is left as it was, with what has left the window.
Refuse(h) ==
    /\ AtLimit(h)
    /\ refusedAt' = [refusedAt EXCEPT ![h] = now]
    /\ UNCHANGED <<now, buckets, admitted>>

NewStamp(h) == [at |-> now, nr |-> Cardinality(admitted[h]) + 1]

Admit(h) ==
    /\ ~ AtLimit(h)
    /\ buckets' = [buckets EXCEPT ![h] = Recent(@) \cup {NewStamp(h)}]
    /\ admitted' = [admitted EXCEPT ![h] = @ \cup {NewStamp(h)}]
    /\ refusedAt' = [refusedAt EXCEPT ![h] = Never]
    /\ UNCHANGED now

Next == Tick \/ \E h \in Headers : Refuse(h) \/ Admit(h)

Spec == Init /\ [][Next]_vars

-----------------------------------------------------------------------------
AdmittedIn(h, first, last) ==
    Cardinality({s \in admitted[h] : s.at > first /\ s.at <= last})

\* "A fixed 1-minute sliding window" (rate_limit_middleware.py): no window of
\* that length, wherever it ends, holds more admitted requests than the
\* limit, although buckets are pruned and refused requests leave them alone.
NoWindowAboveLimit ==
    \A h \in Headers, last \in 0 .. LastTick :
      AdmittedIn(h, last - Window, last) <= RateLimit

\* A peer is refused only for its own admitted requests of the last window:
\* never for older ones that are still in its bucket, nor for refused ones.
RefusedOnlyAtLimit ==
    [][\A h \in Headers :
         refusedAt'[h] # refusedAt[h] /\ refusedAt'[h] # Never
           => AdmittedIn(h, now - Window, now) = RateLimit]_vars

\* "Retry-After: 60" is enough: a peer that was refused and stays silent for
\* a window is let in, however often it was refused before.
RetryAfterIsEnough ==
    \A h \in Headers :
      refusedAt[h] # Never /\ now >= refusedAt[h] + Window => ~ AtLimit(h)

=============================================================================
