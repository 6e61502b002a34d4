------------------------------ MODULE RpcCalls ------------------------------
(***************************************************************************)
(* rpcCallWithMetrics of src/src/index-production.ts: every RPC call of    *)
(* the production indexer takes a token from the rate limiter, waiting for *)
(* it if need be, passes the circuit breaker, and inside the breaker tries *)
(* the request again after retriable errors.  The callers are the slots of *)
(* the pool that fetches the blocks of a batch concurrently.  They share   *)
(* the limiter and the breaker, and every await is a step boundary.        *)
(*                                                                         *)
(* Simplifications:                                                        *)
(*  - the back-off between two attempts has a random length: its end is a  *)
(*    step that may come at any time;                                      *)
(*  - a timer never fires early, and may fire late;                        *)
(*  - metrics and logs are left out.                                       *)
(***************************************************************************)
EXTENDS RateLimiter, CircuitBreaker, FiniteSets

CONSTANTS
  Callers,             \* the concurrent calls (p-limit, 10 in production)
  MaxConsumeRetries,   \* maxRetries of consume (100)
  MaxRetries           \* maxRetries of retryWithBackoffSelective (3)

ASSUME CallsAssumption ==
  /\ IsFiniteSet(Callers)
  /\ MaxConsumeRetries \in Nat \ {0}
  /\ MaxRetries \in Nat

VARIABLES
  pc,          \* where each caller is
  wait,        \* the time until a throttled caller's timer is due
  refusals,    \* retries of consume
  attempt,     \* attempt of retryWithBackoffSelective
  healthy      \* the node answers every request (environment)

limiterVars == <<tokens, sinceRefill>>
callVars == <<wait, refusals, attempt>>
vars == <<limiterVars, breakerVars, pc, callVars, healthy>>

Goto(c, label) == pc' = [pc EXCEPT ![c] = label]

InFlight == {c \in Callers : pc[c] \in {"trying", "backoff"}}

Init ==
  /\ BucketFull
  /\ CircuitClosed
  /\ pc = [c \in Callers |-> "idle"]
  /\ wait = [c \in Callers |-> 0]
  /\ refusals = [c \in Callers |-> 0]
  /\ attempt = [c \in Callers |-> 0]
  /\ healthy \in BOOLEAN

-----------------------------------------------------------------------------
(* consume: the first try of a call, or the next one when its timer fires. *)

Asks(c) ==
  \/ pc[c] = "idle"
  \/ pc[c] = "throttled" /\ wait[c] = 0 /\ refusals[c] < MaxConsumeRetries

TakeToken(c) ==
  /\ Asks(c)
  /\ Consume
  /\ Goto(c, "granted")
  /\ wait' = [wait EXCEPT ![c] = 0]
  /\ refusals' = [refusals EXCEPT ![c] = 0]
  /\ UNCHANGED <<breakerVars, attempt, healthy>>

WaitForToken(c) ==
  /\ Asks(c)
  /\ Refuse
  /\ Goto(c, "throttled")
  /\ wait' = [wait EXCEPT ![c] = WaitTime]
  /\ refusals' = [refusals EXCEPT ![c] = @ + 1]
  /\ UNCHANGED <<breakerVars, attempt, healthy>>

(* consume throws: 'Rate limiter exceeded max retries'.                    *)
ConsumeThrows(c) ==
  /\ pc[c] = "throttled" /\ wait[c] = 0 /\ refusals[c] >= MaxConsumeRetries
  /\ Goto(c, "idle")
  /\ refusals' = [refusals EXCEPT ![c] = 0]
  /\ UNCHANGED <<limiterVars, breakerVars, wait, attempt, healthy>>

-----------------------------------------------------------------------------
(* circuitBreaker.execute around retryWithBackoffSelective.                *)

Enter(c) ==
  /\ pc[c] = "granted"
  /\ Admit
  /\ Goto(c, "trying")
  /\ UNCHANGED <<limiterVars, callVars, healthy>>

BreakerRejects(c) ==
  /\ pc[c] = "granted"
  /\ Reject
  /\ Goto(c, "idle")
  /\ UNCHANGED <<limiterVars, callVars, healthy>>

RequestSucceeds(c) ==
  /\ pc[c] = "trying"
  /\ Settled
  /\ Goto(c, "idle")
  /\ attempt' = [attempt EXCEPT ![c] = 0]
  /\ UNCHANGED <<limiterVars, wait, refusals, healthy>>

(* A network error, a timeout or a 429, with attempts left.                *)
RequestFailsRetriably(c) ==
  /\ pc[c] = "trying" /\ ~healthy
  /\ attempt[c] < MaxRetries
  /\ Goto(c, "backoff")
  /\ UNCHANGED <<limiterVars, breakerVars, callVars, healthy>>

RetryRequest(c) ==
  /\ pc[c] = "backoff"
  /\ Goto(c, "trying")
  /\ attempt' = [attempt EXCEPT ![c] = @ + 1]
  /\ UNCHANGED <<limiterVars, breakerVars, wait, refusals, healthy>>

(* Any other error, or the last attempt.                                   *)
CallFails(c) ==
  /\ pc[c] = "trying" /\ ~healthy
  /\ Failed
  /\ Goto(c, "idle")
  /\ attempt' = [attempt EXCEPT ![c] = 0]
  /\ UNCHANGED <<limiterVars, wait, refusals, healthy>>

-----------------------------------------------------------------------------
(* The environment.                                                        *)

(* A millisecond passes.                                                   *)
Tick ==
  /\ sinceRefill' = Capped(sinceRefill + 1, FullAfter)
  /\ sinceFailure' = Capped(sinceFailure + 1, LongAgo)
  /\ wait' = [c \in Callers |-> IF wait[c] > 0 THEN wait[c] - 1 ELSE 0]
  /\ UNCHANGED <<tokens, circuit, failureCount, successCount, halfOpenCalls,
                 pc, refusals, attempt, healthy>>

NodeFailsOrRecovers ==
  /\ healthy' = ~healthy
  /\ UNCHANGED <<limiterVars, breakerVars, pc, callVars>>

-----------------------------------------------------------------------------
Wake(c) == pc[c] = "throttled" /\ (TakeToken(c) \/ WaitForToken(c) \/ ConsumeThrows(c))

Answer(c) == RequestSucceeds(c) \/ RequestFailsRetriably(c) \/ CallFails(c)

Execute(c) == Enter(c) \/ BreakerRejects(c)

Next ==
  \/ Tick
  \/ NodeFailsOrRecovers
  \/ \E c \in Callers :
       \/ TakeToken(c) \/ WaitForToken(c) \/ ConsumeThrows(c)
       \/ Execute(c) \/ Answer(c) \/ RetryRequest(c)

Spec == Init /\ [][Next]_vars

(* Time passes, timers fire, and a request is answered or times out.       *)
(* Nothing is assumed of when a caller makes its next call.                *)
Fairness ==
  /\ WF_vars(Tick)
  /\ \A c \in Callers :
       WF_vars(Wake(c)) /\ WF_vars(Execute(c)) /\ WF_vars(Answer(c)) /\ WF_vars(RetryRequest(c))

FairSpec == Spec /\ Fairness

-----------------------------------------------------------------------------
(* Properties.                                                             *)

(* Every variable has its type.                                            *)
TypeOK ==
  /\ tokens \in 0..MaxBurst
  /\ sinceRefill \in 0..FullAfter
  /\ circuit \in CircuitStates
  /\ failureCount \in 0..FailureThreshold
  /\ successCount \in 0..HalfOpenMaxCalls
  /\ halfOpenCalls \in 0..HalfOpenMaxCalls
  /\ sinceFailure \in 0..LongAgo
  /\ pc \in [Callers -> {"idle", "throttled", "granted", "trying", "backoff"}]
  /\ wait \in [Callers -> 0..WaitTime]
  /\ refusals \in [Callers -> 0..MaxConsumeRetries]
  /\ attempt \in [Callers -> 0..MaxRetries]
  /\ healthy \in BOOLEAN

(* The limiter keeps its promise to the node however the concurrent        *)
(* callers interleave: each call that passes has spent a whole token of a  *)
(* budget that grows at the configured rate and never exceeds the burst.   *)
Budget == INSTANCE TokenBudget WITH
  credit <- Capped(tokens * Interval + sinceRefill * PerInterval, MaxBurst * Interval),
  admitted <- {c \in Callers : pc[c] \in {"granted", "trying", "backoff"}}

RateIsBounded == Budget!Spec

(* A half-open breaker at its call limit still waits for an answer: late   *)
(* answers to calls from before it opened, and trials of an earlier round, *)
(* cannot leave it rejecting every call with nothing left to close or open *)
(* it again.                                                               *)
HalfOpenIsUndecided ==
  circuit = "HALF_OPEN" /\ halfOpenCalls >= HalfOpenMaxCalls => InFlight # {}

(* A closed breaker has seen fewer failures than the threshold since the   *)
(* last success: no failure from before it opened is left over to open it  *)
(* again early.                                                            *)
ClosedBelowThreshold == circuit = "CLOSED" => failureCount < FailureThreshold

(* If the node stays healthy and calls keep getting tokens, the breaker    *)
(* closes and stays closed.                                                *)
RecoversWithTheNode ==
  <>[]healthy /\ []<>(\E c \in Callers : pc[c] = "granted") => <>[](circuit = "CLOSED")
=============================================================================
