---------------------------- MODULE RateLimiter -----------------------------
(***************************************************************************)
(* The token bucket of src/src/utils/rate-limiter.ts, for one token a      *)
(* call.  Each operation runs without an await, so it is one step.  Time   *)
(* is counted in milliseconds since the last refill, and no further than   *)
(* FullAfter, when the bucket is full whatever it held.  The clock is      *)
(* assumed never to go backwards.                                          *)
(***************************************************************************)
EXTENDS Naturals

CONSTANTS
  Interval,      \* intervalMs
  PerInterval,   \* tokensPerInterval
  MaxBurst       \* maxBurstTokens

ASSUME LimiterAssumption ==
  /\ Interval \in Nat \ {0}
  /\ PerInterval \in Nat \ {0}
  /\ MaxBurst \in Nat \ {0}

VARIABLES
  tokens,        \* this.tokens
  sinceRefill    \* now - this.lastRefillTimestamp

Capped(x, limit) == IF x > limit THEN limit ELSE x

CeilDiv(a, b) == (a + b - 1) \div b

FullAfter == CeilDiv(MaxBurst * Interval, PerInterval)

BucketFull == tokens = MaxBurst /\ sinceRefill = 0

-----------------------------------------------------------------------------
(* Plausible mistakes in the code below.                                   *)
RefilledPastBurst == (tokens * Interval + sinceRefill * PerInterval) \div Interval

-----------------------------------------------------------------------------
(* What refill leaves in the bucket.  Within the same millisecond the code *)
(* returns early, which leaves the same; otherwise Math.floor drops the    *)
(* fraction of a token earned since the last refill, and the caller sets   *)
(* sinceRefill to 0.                                                       *)
Refilled == Capped((tokens * Interval + sinceRefill * PerInterval) \div Interval, MaxBurst)

Allowed == Refilled >= 1

Consume == Allowed /\ tokens' = Refilled - 1 /\ sinceRefill' = 0

Refuse == ~Allowed /\ tokens' = Refilled /\ sinceRefill' = 0

(* waitTimeMs, after a refusal has left the bucket empty.                  *)
WaitTime == CeilDiv(Interval, PerInterval)
=============================================================================
