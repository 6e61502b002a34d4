--------------------------- MODULE CircuitBreaker ---------------------------
(***************************************************************************)
(* The circuit breaker of src/src/utils/circuit-breaker.ts.  execute is an *)
(* admission, the awaited call, and a settlement by its result; the        *)
(* settlement looks at the state of that moment, which may not be the one  *)
(* the call was admitted in.  Each of the two runs without an await.       *)
(*                                                                         *)
(* Two counters saturate where no test of the code can tell the rest       *)
(* apart: the failures at the threshold, the time since the last failure   *)
(* one past the timeout (the initial lastFailureTime 0 is long ago).       *)
(***************************************************************************)
EXTENDS Naturals

CONSTANTS
  FailureThreshold,   \* failureThreshold
  ResetTimeout,       \* resetTimeoutMs
  HalfOpenMaxCalls    \* halfOpenMaxCalls

ASSUME BreakerAssumption ==
  /\ FailureThreshold \in Nat \ {0}
  /\ ResetTimeout \in Nat
  /\ HalfOpenMaxCalls \in Nat \ {0}

VARIABLES
  circuit,         \* this.state
  failureCount,
  successCount,
  halfOpenCalls,
  sinceFailure     \* now - this.lastFailureTime

breakerVars == <<circuit, failureCount, successCount, halfOpenCalls, sinceFailure>>

CircuitStates == {"CLOSED", "OPEN", "HALF_OPEN"}

LongAgo == ResetTimeout + 1

CircuitClosed ==
  /\ circuit = "CLOSED"
  /\ failureCount = 0 /\ successCount = 0 /\ halfOpenCalls = 0
  /\ sinceFailure = LongAgo

-----------------------------------------------------------------------------
(* Plausible mistakes in the code below.                                   *)
AdmitFirstTrialWithOldCount ==
  /\ circuit = "OPEN" /\ sinceFailure > ResetTimeout
  /\ circuit' = "HALF_OPEN"
  /\ halfOpenCalls' = halfOpenCalls + 1
  /\ successCount' = 0
  /\ UNCHANGED <<failureCount, sinceFailure>>

AdmitTrialOneMore ==
  /\ circuit = "HALF_OPEN" /\ halfOpenCalls <= HalfOpenMaxCalls
  /\ halfOpenCalls' = halfOpenCalls + 1
  /\ UNCHANGED <<circuit, failureCount, successCount, sinceFailure>>

RecoverOneLate ==
  /\ circuit = "HALF_OPEN"
  /\ successCount' = successCount + 1
  /\ IF successCount' > HalfOpenMaxCalls
     THEN circuit' = "CLOSED" /\ failureCount' = 0 /\ halfOpenCalls' = 0
     ELSE UNCHANGED <<circuit, failureCount, halfOpenCalls>>
  /\ UNCHANGED sinceFailure

-----------------------------------------------------------------------------
(* Admission.                                                              *)

AdmitClosed == circuit = "CLOSED" /\ UNCHANGED breakerVars

AdmitFirstTrial ==
  /\ circuit = "OPEN" /\ sinceFailure > ResetTimeout
  /\ circuit' = "HALF_OPEN"
  /\ halfOpenCalls' = 1
  /\ successCount' = 0
  /\ UNCHANGED <<failureCount, sinceFailure>>

AdmitTrial ==
  /\ circuit = "HALF_OPEN" /\ halfOpenCalls < HalfOpenMaxCalls
  /\ halfOpenCalls' = halfOpenCalls + 1
  /\ UNCHANGED <<circuit, failureCount, successCount, sinceFailure>>

Admit == AdmitClosed \/ AdmitFirstTrial \/ AdmitTrial

Reject ==
  /\ \/ circuit = "OPEN" /\ sinceFailure <= ResetTimeout
     \/ circuit = "HALF_OPEN" /\ halfOpenCalls >= HalfOpenMaxCalls
  /\ UNCHANGED breakerVars

-----------------------------------------------------------------------------
(* Settlement.                                                             *)

TrialSucceeds ==
  /\ circuit = "HALF_OPEN"
  /\ successCount' = successCount + 1
  /\ IF successCount' >= HalfOpenMaxCalls
     THEN circuit' = "CLOSED" /\ failureCount' = 0 /\ halfOpenCalls' = 0
     ELSE UNCHANGED <<circuit, failureCount, halfOpenCalls>>
  /\ UNCHANGED sinceFailure

CallSucceeds ==
  /\ circuit # "HALF_OPEN"
  /\ failureCount' = 0
  /\ UNCHANGED <<circuit, successCount, halfOpenCalls, sinceFailure>>

Settled == TrialSucceeds \/ CallSucceeds

Failed ==
  /\ failureCount' = IF failureCount < FailureThreshold THEN failureCount + 1 ELSE failureCount
  /\ sinceFailure' = 0
  /\ circuit' = IF circuit = "HALF_OPEN" \/ failureCount' >= FailureThreshold
                THEN "OPEN" ELSE circuit
  /\ UNCHANGED <<successCount, halfOpenCalls>>
=============================================================================
