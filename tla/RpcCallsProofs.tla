--------------------------- MODULE RpcCallsProofs ---------------------------
(***************************************************************************)
(* Proofs about RpcCalls: its types, the two invariants of the circuit     *)
(* breaker, and that the rate limiter implements TokenBudget, for any      *)
(* number of callers and any configuration.                                *)
(***************************************************************************)
EXTENDS RpcCalls, FiniteSetTheorems, TLAPS

(* Integer division rounds down.                                           *)
LEMMA DivProperty ==
  ASSUME NEW a \in Nat, NEW b \in Nat \ {0}
  PROVE  a \div b \in Nat /\ (a \div b) * b <= a /\ a < ((a \div b) + 1) * b
OBVIOUS

LEMMA ProductType ==
  ASSUME NEW a \in Nat, NEW b \in Nat
  PROVE  a * b \in Nat
OBVIOUS

LEMMA CeilDivProperty ==
  ASSUME NEW a \in Nat, NEW b \in Nat \ {0}
  PROVE  CeilDiv(a, b) \in Nat /\ a <= CeilDiv(a, b) * b
<1> DEFINE q == (a + b - 1) \div b
<1>1. a + b - 1 \in Nat
  OBVIOUS
<1>2. q \in Nat /\ a + b - 1 < (q + 1) * b
  BY <1>1, DivProperty
<1> HIDE DEF q
<1>3. (q + 1) * b = q * b + b /\ q * b \in Nat
  BY <1>2, ProductType
<1>4. a <= q * b
  BY <1>2, <1>3
<1> QED BY <1>2, <1>4 DEF CeilDiv, q

LEMMA CappedType ==
  ASSUME NEW x \in Nat, NEW limit \in Nat
  PROVE  Capped(x, limit) \in 0..limit /\ Capped(x, limit) <= x
BY DEF Capped

(* The constants derived from the configuration.                           *)
LEMMA DerivedConstants ==
  /\ FullAfter \in Nat /\ WaitTime \in Nat /\ LongAgo \in Nat \ {0}
  /\ MaxBurst * Interval \in Nat
  /\ MaxBurst * Interval <= FullAfter * PerInterval
<1>1. MaxBurst * Interval \in Nat
  BY LimiterAssumption, ProductType
<1>2. FullAfter \in Nat /\ MaxBurst * Interval <= FullAfter * PerInterval
  BY <1>1, LimiterAssumption, CeilDivProperty DEF FullAfter
<1>3. WaitTime \in Nat
  BY LimiterAssumption, CeilDivProperty DEF WaitTime
<1>4. LongAgo \in Nat \ {0}
  BY BreakerAssumption DEF LongAgo
<1> QED BY <1>1, <1>2, <1>3, <1>4

(* A refill leaves a whole number of tokens, at most the burst, and no     *)
(* more than the bucket held and earned.                                   *)
LEMMA RefilledProperty ==
  ASSUME tokens \in 0..MaxBurst, sinceRefill \in Nat
  PROVE  /\ Refilled \in 0..MaxBurst
         /\ tokens * Interval + sinceRefill * PerInterval \in Nat
         /\ Refilled * Interval <= tokens * Interval + sinceRefill * PerInterval
         /\ Refilled * Interval <= MaxBurst * Interval
<1> DEFINE earned == tokens * Interval + sinceRefill * PerInterval
<1> DEFINE whole == earned \div Interval
<1>1. tokens \in Nat /\ Interval \in Nat \ {0} /\ PerInterval \in Nat /\ MaxBurst \in Nat
  BY LimiterAssumption
<1>2. earned \in Nat
  <2>1. tokens * Interval \in Nat /\ sinceRefill * PerInterval \in Nat
    BY <1>1, ProductType
  <2> QED BY <2>1
<1>3. whole \in Nat /\ whole * Interval <= earned
  <2> HIDE DEF earned
  <2> QED BY <1>1, <1>2, DivProperty
<1>4. Refilled = Capped(whole, MaxBurst)
  BY DEF Refilled
<1> HIDE DEF earned, whole
<1>5. Refilled \in 0..MaxBurst /\ Refilled <= whole
  BY <1>1, <1>3, <1>4, CappedType
<1>6. \A r, s \in Nat : r <= s => r * Interval <= s * Interval
  <2> SUFFICES ASSUME NEW r \in Nat, NEW s \in Nat, r <= s PROVE r * Interval <= s * Interval
    OBVIOUS
  <2>1. s = r + (s - r) /\ s - r \in Nat
    OBVIOUS
  <2>2. (r + (s - r)) * Interval = r * Interval + (s - r) * Interval
    BY <1>1
  <2>3. r * Interval \in Nat /\ (s - r) * Interval \in Nat
    BY <1>1, <2>1, ProductType
  <2> QED BY <2>1, <2>2, <2>3
<1>7. Refilled * Interval <= whole * Interval /\ Refilled * Interval <= MaxBurst * Interval
  BY <1>1, <1>3, <1>5, <1>6
<1>8. Refilled * Interval \in Nat /\ whole * Interval \in Nat
  BY <1>1, <1>3, <1>5, ProductType
<1> QED BY <1>2, <1>3, <1>5, <1>7, <1>8 DEF earned

-----------------------------------------------------------------------------
(* The inductive invariant.  A caller that does not wait for a token has   *)
(* no refusals, one that backs off has an attempt left, and while the      *)
(* breaker is half-open every trial it admitted is counted as a success or *)
(* still in flight.                                                        *)

RefusalsOfTheCall == \A c \in Callers : pc[c] # "throttled" => refusals[c] = 0

AttemptsLeft == \A c \in Callers : pc[c] = "backoff" => attempt[c] < MaxRetries

TrialsAccountedFor ==
  circuit = "HALF_OPEN" =>
    /\ halfOpenCalls <= successCount + Cardinality(InFlight)
    /\ successCount < HalfOpenMaxCalls

Inv == TypeOK /\ RefusalsOfTheCall /\ AttemptsLeft /\ TrialsAccountedFor /\ ClosedBelowThreshold

(* The calls in flight after a step of one caller, and their number.       *)
LEMMA InFlightFinite == IsFiniteSet(InFlight) /\ Cardinality(InFlight) \in Nat
<1>1. IsFiniteSet(InFlight)
  BY CallsAssumption, FS_Subset DEF InFlight
<1> QED BY <1>1, FS_CardinalityType

LEMMA InFlightGrows ==
  ASSUME TypeOK, NEW c \in Callers, pc[c] = "granted", Goto(c, "trying")
  PROVE  Cardinality(InFlight') = Cardinality(InFlight) + 1
<1>1. InFlight' = InFlight \cup {c} /\ c \notin InFlight
  BY DEF InFlight, Goto, TypeOK
<1> QED BY <1>1, InFlightFinite, FS_AddElement

LEMMA InFlightShrinks ==
  ASSUME TypeOK, NEW c \in Callers, pc[c] = "trying", Goto(c, "idle")
  PROVE  Cardinality(InFlight') = Cardinality(InFlight) - 1
<1>1. InFlight' = InFlight \ {c} /\ c \in InFlight
  BY DEF InFlight, Goto, TypeOK
<1> QED BY <1>1, InFlightFinite, FS_RemoveElement

LEMMA InFlightSame ==
  ASSUME TypeOK, NEW c \in Callers, NEW label, Goto(c, label),
         (pc[c] \in {"trying", "backoff"}) <=> (label \in {"trying", "backoff"})
  PROVE  InFlight' = InFlight
BY DEF InFlight, Goto, TypeOK

(* The inductive invariant holds of every reachable state.                 *)
THEOREM BreakerInvariant == Spec => []Inv
<1>1. Init => Inv
  BY LimiterAssumption, BreakerAssumption, CallsAssumption, DerivedConstants
  DEF Init, Inv, BucketFull, CircuitClosed, CircuitStates, TypeOK,
      RefusalsOfTheCall, AttemptsLeft, TrialsAccountedFor, ClosedBelowThreshold
<1>2. Inv /\ [Next]_vars => Inv'
  <2> SUFFICES ASSUME Inv, [Next]_vars PROVE Inv'
    OBVIOUS
  <2> USE LimiterAssumption, BreakerAssumption, CallsAssumption, DerivedConstants
      DEF TypeOK, Inv, RefusalsOfTheCall, AttemptsLeft, TrialsAccountedFor, ClosedBelowThreshold
  <2>1. CASE Tick
    <3>1. sinceRefill + 1 \in Nat /\ sinceFailure + 1 \in Nat
      OBVIOUS
    <3>2. sinceRefill' \in 0..FullAfter /\ sinceFailure' \in 0..LongAgo
      BY <2>1, <3>1, CappedType DEF Tick
    <3>3. wait' \in [Callers -> 0..WaitTime]
      BY <2>1 DEF Tick
    <3>4. InFlight' = InFlight
      BY <2>1 DEF Tick, InFlight
    <3> QED BY <2>1, <3>2, <3>3, <3>4 DEF Tick
  <2>2. CASE NodeFailsOrRecovers
    BY <2>2 DEF NodeFailsOrRecovers, limiterVars, breakerVars, callVars, InFlight
  <2>3. ASSUME NEW c \in Callers, TakeToken(c) PROVE Inv'
    <3>1. Refilled \in 0..MaxBurst
      BY RefilledProperty
    <3>2. tokens' \in 0..MaxBurst /\ sinceRefill' \in 0..FullAfter
      BY <2>3, <3>1 DEF TakeToken, Consume, Allowed
    <3>3. InFlight' = InFlight
      BY <2>3, InFlightSame DEF TakeToken, Asks
    <3> QED BY <2>3, <3>2, <3>3 DEF TakeToken, Goto, breakerVars
  <2>4. ASSUME NEW c \in Callers, WaitForToken(c) PROVE Inv'
    <3>1. Refilled \in 0..MaxBurst
      BY RefilledProperty
    <3>2. tokens' \in 0..MaxBurst /\ sinceRefill' \in 0..FullAfter
      BY <2>4, <3>1 DEF WaitForToken, Refuse, Allowed
    <3>3. refusals[c] + 1 \in 0..MaxConsumeRetries
      BY <2>4 DEF WaitForToken, Asks
    <3>4. InFlight' = InFlight
      BY <2>4, InFlightSame DEF WaitForToken, Asks
    <3> QED BY <2>4, <3>2, <3>3, <3>4 DEF WaitForToken, Goto, breakerVars
  <2>5. ASSUME NEW c \in Callers, ConsumeThrows(c) PROVE Inv'
    <3>1. InFlight' = InFlight
      BY <2>5, InFlightSame DEF ConsumeThrows
    <3> QED BY <2>5, <3>1 DEF ConsumeThrows, Goto, limiterVars, breakerVars
  <2>6. ASSUME NEW c \in Callers, Enter(c) PROVE Inv'
    <3>1. Cardinality(InFlight') = Cardinality(InFlight) + 1 /\ Cardinality(InFlight) \in Nat
      BY <2>6, InFlightGrows, InFlightFinite DEF Enter
    <3>2. TypeOK' /\ RefusalsOfTheCall' /\ AttemptsLeft'
      BY <2>6 DEF Enter, Goto, limiterVars, callVars, breakerVars, CircuitStates,
         Admit, AdmitClosed, AdmitFirstTrial, AdmitTrial
    <3>3. TrialsAccountedFor' /\ ClosedBelowThreshold'
      BY <2>6, <3>1 DEF Enter, breakerVars, Admit, AdmitClosed, AdmitFirstTrial, AdmitTrial
    <3> QED BY <3>2, <3>3
  <2>7. ASSUME NEW c \in Callers, BreakerRejects(c) PROVE Inv'
    <3>1. InFlight' = InFlight
      BY <2>7, InFlightSame DEF BreakerRejects
    <3>2. UNCHANGED <<limiterVars, breakerVars, callVars, healthy>> /\ Goto(c, "idle") /\ pc[c] = "granted"
      BY <2>7 DEF BreakerRejects, Reject
    <3>3. refusals[c] = 0
      BY <3>2
    <3> QED BY <3>1, <3>2, <3>3 DEF Goto, limiterVars, callVars, breakerVars
  <2>8. ASSUME NEW c \in Callers, RequestSucceeds(c) PROVE Inv'
    <3>1. Cardinality(InFlight') = Cardinality(InFlight) - 1 /\ Cardinality(InFlight) \in Nat
      BY <2>8, InFlightShrinks, InFlightFinite DEF RequestSucceeds
    <3>2. /\ circuit' \in CircuitStates
          /\ failureCount' \in 0..FailureThreshold
          /\ successCount' \in 0..HalfOpenMaxCalls
          /\ halfOpenCalls' \in 0..HalfOpenMaxCalls
          /\ sinceFailure' \in 0..LongAgo
      BY <2>8 DEF RequestSucceeds, CircuitStates, Settled, TrialSucceeds, CallSucceeds
    <3>4. UNCHANGED <<limiterVars, wait, refusals, healthy>> /\ Goto(c, "idle") /\ pc[c] = "trying"
          /\ attempt' = [attempt EXCEPT ![c] = 0]
      BY <2>8 DEF RequestSucceeds
    <3>5. refusals[c] = 0
      BY <3>4
    <3>6. TypeOK' /\ RefusalsOfTheCall' /\ AttemptsLeft'
      BY <3>2, <3>4, <3>5 DEF Goto, limiterVars
    <3>3. TrialsAccountedFor' /\ ClosedBelowThreshold'
      BY <2>8, <3>1 DEF RequestSucceeds, Settled, TrialSucceeds, CallSucceeds
    <3> QED BY <3>3, <3>6
  <2>9. ASSUME NEW c \in Callers, RequestFailsRetriably(c) PROVE Inv'
    <3>1. InFlight' = InFlight
      BY <2>9, InFlightSame DEF RequestFailsRetriably
    <3> QED BY <2>9, <3>1 DEF RequestFailsRetriably, Goto, limiterVars, breakerVars, callVars
  <2>10. ASSUME NEW c \in Callers, RetryRequest(c) PROVE Inv'
    <3>1. InFlight' = InFlight
      BY <2>10, InFlightSame DEF RetryRequest
    <3> QED BY <2>10, <3>1 DEF RetryRequest, Goto, limiterVars, breakerVars
  <2>11. ASSUME NEW c \in Callers, CallFails(c) PROVE Inv'
    <3>1. circuit' # "HALF_OPEN"
      BY <2>11 DEF CallFails, Failed
    <3>2. /\ circuit' \in CircuitStates
          /\ failureCount' \in 0..FailureThreshold
          /\ sinceFailure' \in 0..LongAgo
          /\ circuit' = "CLOSED" => failureCount' < FailureThreshold
      BY <2>11 DEF CallFails, Failed, CircuitStates
    <3>3. UNCHANGED <<limiterVars, successCount, halfOpenCalls, wait, refusals, healthy>>
          /\ Goto(c, "idle") /\ pc[c] = "trying" /\ attempt' = [attempt EXCEPT ![c] = 0]
      BY <2>11 DEF CallFails, Failed
    <3>4. refusals[c] = 0
      BY <3>3
    <3> QED BY <3>1, <3>2, <3>3, <3>4 DEF Goto, limiterVars
  <2>12. CASE UNCHANGED vars
    BY <2>12 DEF vars, limiterVars, breakerVars, callVars, InFlight
  <2> QED BY <2>1, <2>2, <2>3, <2>4, <2>5, <2>6, <2>7, <2>8, <2>9, <2>10, <2>11, <2>12
          DEF Next, Execute, Answer
<1> QED BY <1>1, <1>2, PTL DEF Spec

-----------------------------------------------------------------------------
(* Every variable keeps its type.                                          *)
THEOREM CallsTypeCorrect == Spec => []TypeOK
<1>1. Inv => TypeOK
  BY DEF Inv
<1> QED BY <1>1, BreakerInvariant, PTL

(* A half-open breaker at its call limit always waits for an answer: its   *)
(* trials are not all counted as successes, for then it would have closed, *)
(* so by TrialsAccountedFor one of them is in flight.                      *)
THEOREM BreakerIsNeverStuck == Spec => []HalfOpenIsUndecided
<1>1. Inv => HalfOpenIsUndecided
  <2> SUFFICES ASSUME Inv, circuit = "HALF_OPEN", halfOpenCalls >= HalfOpenMaxCalls
               PROVE  InFlight # {}
    BY DEF HalfOpenIsUndecided
  <2>1. halfOpenCalls <= successCount + Cardinality(InFlight) /\ successCount < HalfOpenMaxCalls
    BY DEF Inv, TrialsAccountedFor
  <2>2. Cardinality(InFlight) # 0
    BY <2>1, BreakerAssumption, InFlightFinite DEF Inv, TypeOK
  <2> QED BY <2>2, FS_EmptySet
<1> QED BY <1>1, BreakerInvariant, PTL

(* A closed breaker carries no failures over from before it opened.        *)
THEOREM ClosedBreakerIsFresh == Spec => []ClosedBelowThreshold
<1>1. Inv => ClosedBelowThreshold
  BY DEF Inv
<1> QED BY <1>1, BreakerInvariant, PTL

-----------------------------------------------------------------------------
(* The rate limiter implements TokenBudget.  The credit the bucket stands  *)
(* for is what its tokens and the time since the last refill are worth.    *)

Earned == tokens * Interval + sinceRefill * PerInterval

Credit == Capped(Earned, MaxBurst * Interval)

Admitted == {c \in Callers : pc[c] \in {"granted", "trying", "backoff"}}

LEMMA CreditType ==
  ASSUME TypeOK
  PROVE  Earned \in Nat /\ Credit \in 0..(MaxBurst * Interval)
<1>1. Earned \in Nat
  BY RefilledProperty, DerivedConstants DEF TypeOK, Earned
<1> QED BY <1>1, DerivedConstants, CappedType DEF Credit

(* A try, successful or not, leaves no more credit than there was; one     *)
(* that takes a token leaves a token less.                                 *)
LEMMA CreditOfARefill ==
  ASSUME TypeOK
  PROVE  /\ Refilled \in 0..MaxBurst
         /\ Refilled * Interval \in Nat
         /\ Refilled * Interval <= Credit
<1>1. Refilled \in 0..MaxBurst /\ Refilled * Interval <= Earned /\ Refilled * Interval <= MaxBurst * Interval
  BY RefilledProperty, DerivedConstants DEF TypeOK, Earned
<1>2. Refilled * Interval \in Nat
  BY <1>1, LimiterAssumption, ProductType
<1> QED BY <1>1, <1>2, CreditType, DerivedConstants DEF Credit, Capped

LEMMA CreditAfter ==
  ASSUME TypeOK, NEW left \in 0..MaxBurst, tokens' = left, sinceRefill' = 0
  PROVE  Credit' = left * Interval
<1>1. 0 * PerInterval = 0 /\ left * Interval \in Nat
  BY LimiterAssumption, ProductType
<1>2. Earned' = left * Interval
  BY <1>1 DEF Earned
<1>3. left * Interval <= MaxBurst * Interval
  <2>1. MaxBurst = left + (MaxBurst - left) /\ MaxBurst - left \in Nat
    BY LimiterAssumption
  <2>2. (left + (MaxBurst - left)) * Interval = left * Interval + (MaxBurst - left) * Interval
    BY LimiterAssumption
  <2>3. (MaxBurst - left) * Interval \in Nat
    BY <2>1, LimiterAssumption, ProductType
  <2> QED BY <1>1, <2>1, <2>2, <2>3
<1>4. Credit' = Capped(Earned', MaxBurst * Interval)
  BY DEF Credit, Capped
<1> QED BY <1>1, <1>2, <1>3, <1>4, DerivedConstants DEF Capped

(* A millisecond adds PerInterval parts, unless the bucket is full.        *)
LEMMA CreditOfATick ==
  ASSUME TypeOK, Tick
  PROVE  Credit' = Capped(Credit + PerInterval, MaxBurst * Interval)
<1> DEFINE cap == MaxBurst * Interval
<1>1. cap \in Nat /\ PerInterval \in Nat /\ sinceRefill \in Nat /\ Earned \in Nat /\ tokens \in Nat
  BY CreditType, DerivedConstants, LimiterAssumption DEF TypeOK
<1>2. Credit = Capped(Earned, cap) /\ Credit' = Capped(Earned', cap)
  BY DEF Credit, Capped
<1>3. CASE sinceRefill < FullAfter
  <2>1. tokens' = tokens /\ sinceRefill' = sinceRefill + 1
    BY <1>1, <1>3, DerivedConstants DEF Tick, Capped
  <2>2. (sinceRefill + 1) * PerInterval = sinceRefill * PerInterval + PerInterval
    BY <1>1
  <2>3. tokens * Interval \in Nat /\ sinceRefill * PerInterval \in Nat
    BY <1>1, LimiterAssumption, ProductType
  <2>4. Earned' = Earned + PerInterval
    BY <1>1, <2>1, <2>2, <2>3 DEF Earned
  <2>5. Credit' = Capped(Credit + PerInterval, cap)
    <3> HIDE DEF cap
    <3> QED BY <1>1, <1>2, <2>4 DEF Capped
  <2> QED BY <2>5
<1>4. CASE sinceRefill = FullAfter
  <2>1. tokens' = tokens /\ sinceRefill' = sinceRefill
    BY <1>1, <1>4, DerivedConstants DEF Tick, Capped
  <2>2. Earned' = Earned
    BY <2>1 DEF Earned
  <2>3. tokens * Interval \in Nat /\ sinceRefill * PerInterval \in Nat
    BY <1>1, LimiterAssumption, ProductType
  <2>4. cap <= Earned
    BY <1>1, <1>4, <2>3, DerivedConstants DEF Earned
  <2>5. Credit' = Capped(Credit + PerInterval, cap)
    <3> HIDE DEF cap
    <3> QED BY <1>1, <1>2, <2>2, <2>4 DEF Capped
  <2> QED BY <2>5
<1> QED BY <1>3, <1>4, DerivedConstants DEF TypeOK

(* However the callers interleave, no more of them pass than the           *)
(* configured rate and burst allow.                                        *)
THEOREM RateIsRespected == Spec => RateIsBounded
<1> DEFINE BudgetStep == [Budget!Next]_<<Credit, Admitted>>
<1>1. Init => Budget!Init
  <2> SUFFICES ASSUME Init PROVE Budget!Init
    OBVIOUS
  <2>1. tokens = MaxBurst /\ sinceRefill = 0 /\ Admitted = {}
    BY DEF Init, BucketFull, Admitted
  <2>2. 0 * PerInterval = 0 /\ MaxBurst * Interval \in Nat
    BY LimiterAssumption, DerivedConstants
  <2>3. Credit = MaxBurst * Interval
    BY <2>1, <2>2 DEF Credit, Earned, Capped
  <2> QED BY <2>1, <2>3 DEF Budget!Init, Budget!Capacity, Credit, Earned, Admitted
<1>2. TypeOK /\ [Next]_vars => BudgetStep
  <2> SUFFICES ASSUME TypeOK, [Next]_vars PROVE BudgetStep
    OBVIOUS
  <2>1. CASE Tick
    <3>1. Admitted' = Admitted
      BY <2>1 DEF Tick, Admitted
    <3>2. Credit' = Capped(Credit + PerInterval, MaxBurst * Interval)
      BY <2>1, CreditOfATick
    <3>3. Budget!Accrue
      BY <3>1, <3>2 DEF Budget!Accrue, Budget!Capacity, Credit, Earned, Admitted, Capped
    <3> QED BY <3>3 DEF Budget!Next
  <2>2. ASSUME NEW c \in Callers, TakeToken(c) PROVE BudgetStep
    <3>1. /\ Refilled \in 1..MaxBurst
          /\ tokens' = Refilled - 1 /\ sinceRefill' = 0
          /\ c \notin Admitted
      BY <2>2, CreditOfARefill, LimiterAssumption DEF TakeToken, Asks, Consume, Allowed, Admitted
    <3>2. Admitted' = Admitted \cup {c}
      BY <2>2 DEF TakeToken, Goto, Admitted, TypeOK
    <3>3. Credit' = (Refilled - 1) * Interval
      BY <3>1, CreditAfter, LimiterAssumption
    <3>4. (Refilled - 1) * Interval = Refilled * Interval - Interval /\ (Refilled - 1) * Interval \in Nat
      BY <3>1, LimiterAssumption, ProductType
    <3>5. Credit >= Interval /\ Credit' \in 0..(Credit - Interval)
      BY <3>3, <3>4, CreditOfARefill, CreditType, DerivedConstants, LimiterAssumption
    <3>6. Budget!Pass(c)
      BY <3>1, <3>2, <3>5 DEF Budget!Pass, Credit, Earned, Admitted
    <3> QED BY <3>6 DEF Budget!Next
  <2>3. ASSUME NEW c \in Callers, WaitForToken(c) PROVE BudgetStep
    <3>1. tokens' = Refilled /\ sinceRefill' = 0 /\ Refilled \in 0..MaxBurst
      BY <2>3, CreditOfARefill DEF WaitForToken, Refuse
    <3>2. Credit' = Refilled * Interval
      BY <3>1, CreditAfter
    <3>3. Admitted' = Admitted
      BY <2>3 DEF WaitForToken, Asks, Goto, Admitted, TypeOK
    <3>4. Credit' \in 0..Credit
      BY <3>2, CreditOfARefill, CreditType, DerivedConstants
    <3>5. Budget!Lose
      BY <3>3, <3>4 DEF Budget!Lose, Credit, Earned, Admitted
    <3> QED BY <3>5 DEF Budget!Next
  <2>4. ASSUME NEW c \in Callers, pc[c] \in {"granted", "trying"}, Goto(c, "idle"), UNCHANGED limiterVars
        PROVE  BudgetStep
    <3>1. Admitted' = Admitted \ {c} /\ c \in Admitted
      BY <2>4 DEF Goto, Admitted, TypeOK
    <3>2. Credit' = Credit
      BY <2>4 DEF limiterVars, Credit, Earned, Capped
    <3>3. Budget!Finish(c)
      BY <3>1, <3>2 DEF Budget!Finish, Credit, Earned, Admitted
    <3> QED BY <3>3 DEF Budget!Next
  <2>5. ASSUME UNCHANGED limiterVars, Admitted' = Admitted PROVE BudgetStep
    BY <2>5 DEF limiterVars, Credit, Earned, Capped
  <2>6. ASSUME NEW c \in Callers, ConsumeThrows(c) \/ Enter(c) \/ RequestFailsRetriably(c) \/ RetryRequest(c)
        PROVE  BudgetStep
    <3>1. Admitted' = Admitted
      BY <2>6 DEF ConsumeThrows, Enter, RequestFailsRetriably, RetryRequest, Goto, Admitted, TypeOK
    <3> QED BY <2>5, <2>6, <3>1 DEF ConsumeThrows, Enter, RequestFailsRetriably, RetryRequest
  <2>7. ASSUME NEW c \in Callers, BreakerRejects(c) \/ RequestSucceeds(c) \/ CallFails(c)
        PROVE  BudgetStep
    BY <2>4, <2>7 DEF BreakerRejects, RequestSucceeds, CallFails
  <2>8. CASE NodeFailsOrRecovers \/ UNCHANGED vars
    BY <2>5, <2>8 DEF NodeFailsOrRecovers, vars, Admitted
  <2> QED BY <2>1, <2>2, <2>3, <2>6, <2>7, <2>8 DEF Next, Execute, Answer
<1> QED BY <1>1, <1>2, CallsTypeCorrect, PTL
        DEF Spec, RateIsBounded, Budget!Spec, Credit, Earned, Admitted
=============================================================================
