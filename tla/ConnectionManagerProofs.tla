---------------------- MODULE ConnectionManagerProofs -----------------------
(***************************************************************************)
(* Proofs about ConnectionManager, for any number of overlapping health    *)
(* checks and any pools.                                                   *)
(***************************************************************************)
EXTENDS ConnectionManager, TLAPS

-----------------------------------------------------------------------------
(* The inductive invariant.  Only health checks recover, and a recovery    *)
(* that closes a pool has already forgotten it; db is never set to a pool  *)
(* another task is using, so closing the old pool cannot close the current *)
(* one.  A destroy closes the current pool, and as no pool is opened once  *)
(* it has begun, that is still the current one, or none is, when it ends.  *)
ReplacedIsForgotten ==
  \A t \in Tasks : pc[t] = "replacing" => t \in Checks /\ using[t] # db

DestroyIsShutdown ==
  \A t \in Tasks : pc[t] = "destroying" => shuttingDown /\ db \in {using[t], NoPool}

IInv ==
  /\ TypeOK
  /\ NoPoolIsLost
  /\ CurrentPoolIsOpen
  /\ ReplacedIsForgotten
  /\ DestroyIsShutdown

-----------------------------------------------------------------------------
(* The pieces the actions are made of.                                     *)

(* A process that has exited satisfies everything.                         *)
LEMMA ExitKeeps ==
  ASSUME IInv, Exit,
         failures' \in 0..MaxFailures, shuttingDown' \in BOOLEAN,
         interval' \in BOOLEAN, up' \in BOOLEAN
  PROVE  IInv'
BY ManagerAssumption
   DEF IInv, TypeOK, NoPoolIsLost, CurrentPoolIsOpen, ReplacedIsForgotten,
       DestroyIsShutdown, Closing, Exit

(* A task that neither closes a pool nor is left with one returns.         *)
LEMMA ReturnKeeps ==
  ASSUME IInv, NEW t \in Tasks, pc[t] \notin {"replacing", "destroying"}, Return(t),
         UNCHANGED <<db, open>>, shuttingDown' \in BOOLEAN, shuttingDown => shuttingDown',
         failures' \in 0..MaxFailures, interval' \in BOOLEAN, up' \in BOOLEAN
  PROVE  IInv'
<1>1. TypeOK'
  BY DEF IInv, TypeOK, Return, Goto
<1>2. Closing' = Closing
  BY DEF IInv, TypeOK, Return, Goto, Closing
<1>3. NoPoolIsLost' /\ CurrentPoolIsOpen'
  BY <1>2 DEF IInv, NoPoolIsLost, CurrentPoolIsOpen
<1>4. ReplacedIsForgotten' /\ DestroyIsShutdown'
  BY DEF IInv, TypeOK, ReplacedIsForgotten, DestroyIsShutdown, Return, Goto
<1> QED BY <1>1, <1>3, <1>4 DEF IInv

(* destroy up to its first await, for a task that closes nothing yet.      *)
LEMMA StartDestroyKeeps ==
  ASSUME IInv, NEW t \in Tasks, pc[t] \notin {"replacing", "destroying"},
         StartDestroy(t) \/ DestroyedBefore(t), UNCHANGED up
  PROVE  IInv'
<1>1. /\ failures' \in 0..MaxFailures /\ interval' \in BOOLEAN /\ up' \in BOOLEAN
      /\ shuttingDown' \in BOOLEAN /\ (shuttingDown => shuttingDown')
  BY DEF IInv, TypeOK, StartDestroy, DestroyedBefore
<1>2. CASE Exit
  BY <1>1, <1>2, ExitKeeps
<1>3. CASE Return(t) /\ UNCHANGED <<db, open>>
  BY <1>1, <1>3, ReturnKeeps
<1>4. CASE ~shuttingDown /\ shuttingDown' /\ db # NoPool
           /\ Goto(t, "destroying", db) /\ UNCHANGED <<db, open>>
  <2>1. TypeOK'
    BY <1>1, <1>4 DEF IInv, TypeOK, Goto
  <2>2. Closing \subseteq Closing'
    BY <1>4 DEF IInv, TypeOK, Goto, Closing
  <2>3. NoPoolIsLost' /\ CurrentPoolIsOpen'
    BY <1>4, <2>2 DEF IInv, NoPoolIsLost, CurrentPoolIsOpen
  <2>4. ReplacedIsForgotten' /\ DestroyIsShutdown'
    BY <1>4 DEF IInv, TypeOK, ReplacedIsForgotten, DestroyIsShutdown, Goto
  <2> QED BY <2>1, <2>3, <2>4 DEF IInv
<1> QED BY <1>2, <1>3, <1>4 DEF StartDestroy, DestroyedBefore

(* connect, called by a task whose old pool, if it closed one, is closed.  *)
LEMMA ConnectKeeps ==
  ASSUME IInv, NEW t \in Tasks, NEW remaining, NEW count,
         \/ pc[t] \notin {"replacing", "destroying"} /\ remaining = open
         \/ pc[t] = "replacing" /\ remaining = open \ {using[t]},
         Connect(t, db, remaining, count), count \in 0..MaxFailures,
         UNCHANGED <<shuttingDown, interval, up>>
  PROVE  IInv'
<1> USE DEF IInv
<1>1. db # NoPool => db \in remaining
  BY DEF CurrentPoolIsOpen, ReplacedIsForgotten
<1>2. \A p \in remaining : p = db \/ \E s \in Tasks \ {t} :
                              pc[s] \in {"replacing", "destroying"} /\ using[s] = p
  BY DEF NoPoolIsLost, Closing
<1>3. CASE Return(t) /\ db' = db /\ open' = remaining /\ failures' \in 0..MaxFailures
  <2>1. TypeOK'
    BY <1>3 DEF TypeOK, Return, Goto
  <2>2. \A s \in Tasks \ {t} : pc'[s] = pc[s] /\ using'[s] = using[s]
    BY <1>3 DEF TypeOK, Return, Goto
  <2>3. NoPoolIsLost' /\ CurrentPoolIsOpen'
    BY <1>1, <1>2, <1>3, <2>2 DEF NoPoolIsLost, CurrentPoolIsOpen, Closing
  <2>4. pc'[t] = "idle"
    BY <1>3 DEF TypeOK, Return, Goto
  <2>5. ReplacedIsForgotten' /\ DestroyIsShutdown'
    BY <1>3, <2>2, <2>4 DEF ReplacedIsForgotten, DestroyIsShutdown
  <2> QED BY <2>1, <2>3, <2>5
<1>4. ASSUME db = NoPool, ~shuttingDown, OpenPool(t, remaining, count)
      PROVE  IInv'
  <2>1. PICK p \in Pools : /\ Fresh(p)
                           /\ db' = p /\ open' = remaining \cup {p} /\ failures' = count
                           /\ Goto(t, "testing", p)
    BY <1>4 DEF OpenPool
  <2>2. TypeOK'
    BY <2>1 DEF TypeOK, Goto
  <2>3. /\ \A s \in Tasks \ {t} : pc'[s] = pc[s] /\ using'[s] = using[s]
        /\ pc'[t] = "testing"
    BY <2>1 DEF TypeOK, Goto
  <2>4. NoPoolIsLost' /\ CurrentPoolIsOpen'
    <3>1. CurrentPoolIsOpen'
      BY <2>1 DEF CurrentPoolIsOpen
    <3>2. NoPoolIsLost'
      <4> SUFFICES ASSUME NEW q \in open' PROVE (q = db \/ q \in Closing)'
        BY DEF NoPoolIsLost
      <4>1. CASE q = p
        BY <2>1, <4>1
      <4>2. CASE q # p
        <5>1. PICK s \in Tasks \ {t} :
                     pc[s] \in {"replacing", "destroying"} /\ using[s] = q
          <6>1. q \in remaining /\ q # db
            BY <1>4, <2>1, <4>2, ManagerAssumption DEF TypeOK
          <6> QED BY <1>2, <6>1
        <5> QED BY <2>3, <5>1 DEF Closing
      <4> QED BY <4>1, <4>2
    <3> QED BY <3>1, <3>2
  <2>5. ReplacedIsForgotten'
    BY <2>1, <2>3 DEF ReplacedIsForgotten, Fresh
  <2>6. DestroyIsShutdown'
    BY <1>4, <2>3 DEF DestroyIsShutdown
  <2> QED BY <2>2, <2>4, <2>5, <2>6
<1>5. MaxFailures \in Nat \ {0} /\ 0 \in 0..MaxFailures
  BY ManagerAssumption
<1> QED BY <1>3, <1>4, <1>5, Zenon DEF Connect, OpenPoolUnlessShuttingDown

-----------------------------------------------------------------------------
(* Main tests the first pool, and nothing else has begun.                 *)
LEMMA InitEstablishes ==
  ASSUME Init
  PROVE  IInv
<1>1. \A t \in Tasks : /\ pc[t] \in {"testing", "idle"}
                       /\ using[t] = IF pc[t] = "testing" THEN db ELSE NoPool
  BY DEF Init
<1>2. TypeOK
  <2>1. failures \in 0..MaxFailures
    BY ManagerAssumption DEF Init
  <2> QED BY <1>1, <2>1 DEF Init, TypeOK
<1> QED BY <1>1, <1>2 DEF Init, IInv, NoPoolIsLost, CurrentPoolIsOpen,
                          ReplacedIsForgotten, DestroyIsShutdown

(* The counter of failed checks saturates at its limit.                    *)
LEMMA CountedType ==
  ASSUME failures \in 0..MaxFailures
  PROVE  Counted \in 0..MaxFailures
BY ManagerAssumption DEF Counted

(* Every step preserves the invariant.                                     *)
LEMMA NextPreserves ==
  ASSUME IInv, [Next]_vars
  PROVE  IInv'
<1>0. /\ failures \in 0..MaxFailures /\ shuttingDown \in BOOLEAN /\ interval \in BOOLEAN
      /\ up \in BOOLEAN /\ MaxFailures \in Nat \ {0}
  BY ManagerAssumption DEF IInv, TypeOK
<1>1. CASE UNCHANGED vars
  BY <1>1 DEF vars, IInv, TypeOK, NoPoolIsLost, CurrentPoolIsOpen, Closing,
              ReplacedIsForgotten, DestroyIsShutdown
<1>2. CASE DatabaseFailsOrRecovers
  BY <1>2 DEF DatabaseFailsOrRecovers, IInv, TypeOK, NoPoolIsLost, CurrentPoolIsOpen,
              Closing, ReplacedIsForgotten, DestroyIsShutdown
<1>3. CASE Signal
  <2>1. Handler \in Tasks
    BY DEF Tasks
  <2>2. CASE pc[Handler] \notin {"replacing", "destroying"}
    BY <1>3, <2>1, <2>2, StartDestroyKeeps DEF Signal
  <2>3. CASE pc[Handler] = "destroying"
    BY <1>0, <1>3, <2>1, <2>3, ManagerAssumption, ExitKeeps
       DEF Signal, IInv, DestroyIsShutdown, StartDestroy, DestroyedBefore
  <2>4. pc[Handler] # "replacing"
    BY <2>1, ManagerAssumption DEF IInv, ReplacedIsForgotten
  <2> QED BY <2>2, <2>3, <2>4
<1>4. ASSUME NEW t \in Checks, StartCheck(t)
      PROVE  IInv'
  <2>1. t \in Tasks /\ pc[t] = "idle" /\ Goto(t, "checking", db) /\ UNCHANGED <<db, open>>
    BY <1>4 DEF Tasks, StartCheck, At
  <2>2. UNCHANGED <<shuttingDown, interval, failures, up>>
    BY <1>4 DEF StartCheck
  <2>3. TypeOK'
    BY <2>1, <2>2 DEF IInv, TypeOK, Goto
  <2>4. Closing' = Closing
    BY <2>1 DEF IInv, TypeOK, Goto, Closing
  <2>5. NoPoolIsLost' /\ CurrentPoolIsOpen'
    BY <2>1, <2>4 DEF IInv, NoPoolIsLost, CurrentPoolIsOpen
  <2>6. ReplacedIsForgotten' /\ DestroyIsShutdown'
    BY <2>1, <2>2 DEF IInv, TypeOK, ReplacedIsForgotten, DestroyIsShutdown, Goto
  <2> QED BY <2>3, <2>5, <2>6 DEF IInv
<1>5. ASSUME NEW t \in Checks, CheckSucceeds(t) \/ CheckFails(t)
      PROVE  IInv'
  <2>1. t \in Tasks /\ pc[t] = "checking" /\ Return(t)
    BY <1>5 DEF Tasks, CheckSucceeds, CheckFails, At
  <2>2. UNCHANGED <<db, open, shuttingDown, interval, up>>
    BY <1>5 DEF CheckSucceeds, CheckFails
  <2>3. failures' \in 0..MaxFailures
    BY <1>0, <1>5, CountedType DEF CheckSucceeds, CheckFails
  <2> QED BY <1>0, <2>1, <2>2, <2>3, ReturnKeeps
<1>6. ASSUME NEW t \in Checks, LastCheckFails(t)
      PROVE  IInv'
  <2>1. /\ t \in Tasks /\ t \in Checks /\ pc[t] = "checking"
        /\ UNCHANGED <<shuttingDown, interval, up>>
    BY <1>6 DEF Tasks, LastCheckFails, At
  <2>2. CASE db = NoPool
    <3>1. Connect(t, db, open, Counted)
      BY <1>6, <2>2 DEF LastCheckFails, StartRecovery
    <3> QED BY <1>0, <2>1, <3>1, ConnectKeeps, CountedType
  <2>3. CASE db # NoPool
    <3>1. db' = NoPool /\ Goto(t, "replacing", db) /\ failures' = Counted /\ open' = open
      BY <1>6, <2>3 DEF LastCheckFails, StartRecovery
    <3>2. TypeOK'
      BY <1>0, <2>1, <2>3, <3>1, CountedType DEF IInv, TypeOK, Goto
    <3>3. /\ \A s \in Tasks \ {t} : pc'[s] = pc[s] /\ using'[s] = using[s]
          /\ pc'[t] = "replacing" /\ using'[t] = db
      BY <2>1, <3>1 DEF IInv, TypeOK, Goto
    <3>4. NoPoolIsLost' /\ CurrentPoolIsOpen'
      BY <2>1, <3>1, <3>3 DEF IInv, NoPoolIsLost, CurrentPoolIsOpen, Closing
    <3>5. ReplacedIsForgotten' /\ DestroyIsShutdown'
      BY <2>1, <2>3, <3>1, <3>3, ManagerAssumption
         DEF IInv, TypeOK, ReplacedIsForgotten, DestroyIsShutdown
    <3> QED BY <3>2, <3>4, <3>5 DEF IInv
  <2> QED BY <2>2, <2>3
<1>7. ASSUME NEW t \in Checks, OldPoolClosed(t)
      PROVE  IInv'
  <2>1. t \in Tasks /\ pc[t] = "replacing" /\ UNCHANGED <<shuttingDown, interval, up>>
    BY <1>7 DEF Tasks, OldPoolClosed, At
  <2>2. Connect(t, db, open \ {using[t]}, failures)
    BY <1>7 DEF OldPoolClosed
  <2> QED BY <1>0, <2>1, <2>2, ConnectKeeps
<1>8. ASSUME NEW t \in Tasks, TestSucceeds(t)
      PROVE  IInv'
  <2>1. /\ pc[t] = "testing" /\ Return(t) /\ UNCHANGED <<db, open, shuttingDown, up>>
        /\ interval' \in BOOLEAN
    BY <1>8 DEF TestSucceeds, At
  <2>2. failures' \in 0..MaxFailures
    BY <1>0, <1>8 DEF TestSucceeds
  <2> QED BY <1>0, <2>1, <2>2, ReturnKeeps
<1>9. ASSUME NEW t \in Tasks, TestFails(t)
      PROVE  IInv'
  BY <1>9, StartDestroyKeeps DEF TestFails, At
<1>10. ASSUME NEW t \in Tasks, DestroyEnds(t)
       PROVE  IInv'
  <2>1. pc[t] = "destroying" /\ UNCHANGED <<shuttingDown, interval, failures, up>>
    BY <1>10 DEF DestroyEnds, At
  <2>2. CASE t \notin Checks
    BY <1>0, <1>10, <2>1, <2>2, ExitKeeps DEF DestroyEnds
  <2>3. CASE t \in Checks
    <3>1. db' = NoPool /\ open' = open \ {using[t]} /\ Return(t)
      BY <1>10, <2>3 DEF DestroyEnds
    <3>2. TypeOK'
      BY <2>1, <3>1 DEF IInv, TypeOK, Return, Goto
    <3>3. /\ \A s \in Tasks \ {t} : pc'[s] = pc[s] /\ using'[s] = using[s]
          /\ pc'[t] = "idle"
      BY <3>1 DEF IInv, TypeOK, Return, Goto
    <3>4. NoPoolIsLost' /\ CurrentPoolIsOpen'
      <4>1. \A p \in open' : \E s \in Tasks \ {t} :
                               pc[s] \in {"replacing", "destroying"} /\ using[s] = p
        BY <2>1, <3>1, ManagerAssumption
           DEF IInv, TypeOK, NoPoolIsLost, Closing, DestroyIsShutdown
      <4> QED BY <3>1, <3>3, <4>1 DEF NoPoolIsLost, CurrentPoolIsOpen, Closing
    <3>5. ReplacedIsForgotten' /\ DestroyIsShutdown'
      BY <2>1, <3>1, <3>3, ManagerAssumption
         DEF IInv, TypeOK, ReplacedIsForgotten, DestroyIsShutdown
    <3> QED BY <3>2, <3>4, <3>5 DEF IInv
  <2> QED BY <2>2, <2>3
<1> QED BY <1>1, <1>2, <1>3, <1>4, <1>5, <1>6, <1>7, <1>8, <1>9, <1>10 DEF Next, Check, Test

(* The inductive invariant holds in every behaviour.                       *)
THEOREM ManagerInvariant == Spec => []IInv
<1> QED BY InitEstablishes, NextPreserves, PTL DEF Spec

-----------------------------------------------------------------------------
(* Every variable keeps its type, for any number of tasks and pools.       *)
THEOREM ManagerTypeCorrect == Spec => []TypeOK
<1>1. IInv => TypeOK
  BY DEF IInv
<1> QED BY <1>1, ManagerInvariant, PTL

(* database-config.ts: however health checks, recoveries and destroy       *)
(* overlap, an open pool is the current one or is being closed.            *)
THEOREM PoolsAreTracked == Spec => []NoPoolIsLost
<1>1. IInv => NoPoolIsLost
  BY DEF IInv
<1> QED BY <1>1, ManagerInvariant, PTL

(* database-config.ts, getDb: the current connection has not been closed.  *)
THEOREM CurrentPoolIsUsable == Spec => []CurrentPoolIsOpen
<1>1. IInv => CurrentPoolIsOpen
  BY DEF IInv
<1> QED BY <1>1, ManagerInvariant, PTL

(* database-config.ts, connect: no pool is opened once destroy has begun.  *)
THEOREM ShutdownIsFinal == Spec => ClosedForGood
<1>1. ASSUME IInv, [Next]_vars, shuttingDown
      PROVE  open' \subseteq open
  <2>1. \A t : ~ StartDestroy(t)
    BY <1>1 DEF StartDestroy
  <2>2. \A t : DestroyedBefore(t) => open' \subseteq open
    BY DEF DestroyedBefore, Exit
  <2>3. ASSUME NEW t, NEW current, NEW remaining, NEW count,
               Connect(t, current, remaining, count)
        PROVE  open' = remaining
    BY <1>1, <2>3 DEF Connect, OpenPoolUnlessShuttingDown
  <2>4. ASSUME NEW t \in Tasks, Check(t) \/ OldPoolClosed(t)
        PROVE  open' \subseteq open
    <3>1. CASE CheckSucceeds(t) \/ CheckFails(t)
      BY <3>1 DEF CheckSucceeds, CheckFails
    <3>2. CASE LastCheckFails(t)
      BY <2>3, <3>2 DEF LastCheckFails, StartRecovery
    <3>3. CASE OldPoolClosed(t)
      BY <2>3, <3>3 DEF OldPoolClosed
    <3> QED BY <2>4, <3>1, <3>2, <3>3 DEF Check
  <2>5. ASSUME NEW t \in Tasks, Test(t) \/ DestroyEnds(t)
        PROVE  open' \subseteq open
    BY <2>1, <2>2, <2>5 DEF Test, TestSucceeds, TestFails, DestroyEnds, Exit
  <2>6. CASE UNCHANGED vars \/ DatabaseFailsOrRecovers \/ \E t \in Checks : StartCheck(t)
    BY <2>6 DEF vars, DatabaseFailsOrRecovers, StartCheck
  <2>7. CASE Signal
    BY <2>1, <2>2, <2>7 DEF Signal
  <2> QED BY <1>1, <2>4, <2>5, <2>6, <2>7 DEF Next, Tasks
<1>2. IInv /\ [Next]_vars => [shuttingDown => open' \subseteq open]_vars
  BY <1>1
<1> QED BY <1>2, ManagerInvariant, PTL DEF Spec, ClosedForGood
=============================================================================
