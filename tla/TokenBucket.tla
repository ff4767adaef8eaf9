----------------------------- MODULE TokenBucket ------------------------------
(***************************************************************************)
(* The token bucket that limits the rate of Dequeue (pkg/tasks/core.go and *)
(* rate_limiters.go).  A missing rate limiter row is NoBucket.             *)
(***************************************************************************)
EXTENDS Integers

Bucket == [tokens : Int, lastRefilledAt : Int, stored : BOOLEAN]
NoBucket == [tokens |-> 0, lastRefilledAt |-> 0, stored |-> FALSE]

rateLimitingEnabled(r) == r.interval > 0 /\ r.maxTokens > 0

\* The interval is in ticks of the clock; the division by a zero result (an
\* interval shorter than maxTokens ticks) panics in Go, and stays out of the
\* settings of every instance.
getRefillInterval(r) == r.interval \div r.maxTokens

GetOrDefault(b, r, now) ==
    IF b.stored THEN b
    ELSE [tokens |-> r.maxTokens, lastRefilledAt |-> now, stored |-> TRUE]

\* The bucket as Dequeue sees it at now, before it takes any token.
Refill(b, r, now) ==
    LET refillInterval == getRefillInterval(r)
        newTokens == (now - b.lastRefilledAt) \div refillInterval
    IN  CASE b.tokens >= r.maxTokens -> [b EXCEPT !.lastRefilledAt = now]
          [] b.tokens < r.maxTokens /\ newTokens <= 0 -> b
          [] b.tokens < r.maxTokens /\ newTokens > 0
             /\ b.tokens + newTokens > r.maxTokens ->
               [b EXCEPT !.tokens = r.maxTokens, !.lastRefilledAt = now]
          [] OTHER -> [b EXCEPT !.tokens = @ + newTokens,
                                !.lastRefilledAt = @ + newTokens * refillInterval]
===============================================================================
