------------------------- MODULE ConnectionManager --------------------------
(***************************************************************************)
(* The database connection of a process (src/src/database/database-        *)
(* config.ts): connect at startup, the periodic health check that replaces *)
(* the pool after repeated failures, and destroy, called when a connection *)
(* test fails and by the signal handlers.  They are asynchronous methods   *)
(* of one object, and the interval does not wait for its last callback, so *)
(* health checks, recoveries and shutdown overlap.  A step runs to the     *)
(* next await.                                                             *)
(*                                                                         *)
(* Simplifications:                                                        *)
(*  - the process has one manager, the default one, and is not restarted;  *)
(*  - a query on a pool that is being closed may succeed or fail;          *)
(*  - failed checks saturate at the limit they are compared with;          *)
(*  - the name of a pool is used again once nothing refers to it.          *)
(***************************************************************************)
EXTENDS Naturals

CONSTANTS
  Checks,        \* the health-check callbacks that may be active at once
  Main,          \* the main program, which connects at startup
  Handler,       \* the handlers of SIGINT and SIGTERM
  Pools,         \* names for connection pools
  NoPool,        \* null
  MaxFailures    \* MAX_CONSECUTIVE_FAILURES

Tasks == Checks \cup {Main, Handler}

ASSUME ManagerAssumption ==
  /\ Main \notin Checks /\ Handler \notin Checks /\ Main # Handler
  /\ NoPool \notin Pools
  /\ MaxFailures \in Nat \ {0}

VARIABLES
  db,             \* this.db, named by its pool
  open,           \* the pools that have not been ended
  shuttingDown,   \* isShuttingDown
  interval,       \* healthCheckInterval is set
  failures,       \* consecutiveFailures
  pc,             \* where each task is
  using,          \* the pool a task queries or closes
  up,             \* PostgreSQL answers (environment)
  alive           \* the process runs

vars == <<db, open, shuttingDown, interval, failures, pc, using, up, alive>>

At(t, label) == alive /\ pc[t] = label

Goto(t, label, pool) ==
  /\ pc' = [pc EXCEPT ![t] = label]
  /\ using' = [using EXCEPT ![t] = pool]
  /\ UNCHANGED alive

Return(t) == Goto(t, "idle", NoPool)

Closing == {p \in open : \E t \in Tasks : pc[t] \in {"replacing", "destroying"} /\ using[t] = p}

MayAnswer(p) == up /\ p \in open

MayFail(p) == ~up \/ p \notin open \/ p \in Closing

Fresh(p) == p \notin open /\ \A t \in Tasks : using[t] # p

(* createDbConnection has opened the first pool and awaits its test.       *)
Init ==
  /\ db \in Pools /\ open = {db}
  /\ shuttingDown = FALSE /\ interval = FALSE /\ failures = 0
  /\ pc = [t \in Tasks |-> IF t = Main THEN "testing" ELSE "idle"]
  /\ using = [t \in Tasks |-> IF t = Main THEN db ELSE NoPool]
  /\ up \in BOOLEAN
  /\ alive = TRUE

Exit ==
  /\ alive' = FALSE
  /\ db' = NoPool /\ open' = {}
  /\ pc' = [t \in Tasks |-> "idle"]
  /\ using' = [t \in Tasks |-> NoPool]

-----------------------------------------------------------------------------
(* Plausible mistakes in the code below.                                   *)

ConnectTwice(t, current, remaining, count) ==
  \E p \in Pools :
    /\ ~shuttingDown /\ Fresh(p)
    /\ db' = p /\ open' = remaining \cup {p} /\ failures' = count
    /\ Goto(t, "testing", p)

StartDestroyWithoutClosing(t) ==
  /\ ~shuttingDown
  /\ shuttingDown' = TRUE /\ interval' = FALSE
  /\ IF t \in Checks THEN Return(t) /\ UNCHANGED <<db, open>> ELSE Exit
  /\ UNCHANGED failures

DestroyKeepsDb(t) ==
  /\ At(t, "destroying")
  /\ open' = open \ {using[t]} /\ Return(t)
  /\ UNCHANGED <<db, shuttingDown, interval, failures, up>>

ReplaceNothing(t) ==
  db' = NoPool /\ Goto(t, "replacing", db) /\ failures' = MaxFailures /\ UNCHANGED open

-----------------------------------------------------------------------------
(* connect(), with what a recovery makes of its result: current is this.db *)
(* at the call, remaining the pools still open, count the failed checks.   *)

OpenPool(t, remaining, count) ==
  \E p \in Pools :
    /\ Fresh(p)
    /\ db' = p /\ open' = remaining \cup {p} /\ failures' = count
    /\ Goto(t, "testing", p)

OpenPoolUnlessShuttingDown(t, remaining, count) ==
  IF shuttingDown
  THEN db' = NoPool /\ open' = remaining /\ failures' = count /\ Return(t)
  ELSE OpenPool(t, remaining, count)

Connect(t, current, remaining, count) ==
  IF current = NoPool
  THEN OpenPoolUnlessShuttingDown(t, remaining, count)
  ELSE db' = current /\ open' = remaining /\ failures' = 0 /\ Return(t)

TestSucceeds(t) ==
  /\ At(t, "testing") /\ MayAnswer(using[t])
  /\ interval' = TRUE
  /\ failures' = IF t \in Checks THEN 0 ELSE failures
  /\ Return(t)
  /\ UNCHANGED <<db, open, shuttingDown, up>>

-----------------------------------------------------------------------------
(* destroy(): at most once.  Afterwards Main and Handler exit, and a       *)
(* recovery logs its failure.                                              *)

StartDestroy(t) ==
  /\ ~shuttingDown
  /\ shuttingDown' = TRUE /\ interval' = FALSE
  /\ IF db = NoPool
     THEN IF t \in Checks THEN Return(t) /\ UNCHANGED <<db, open>> ELSE Exit
     ELSE Goto(t, "destroying", db) /\ UNCHANGED <<db, open>>
  /\ UNCHANGED failures

DestroyedBefore(t) ==
  /\ shuttingDown
  /\ IF t \in Checks THEN Return(t) /\ UNCHANGED <<db, open>> ELSE Exit
  /\ UNCHANGED <<shuttingDown, interval, failures>>

DestroyEnds(t) ==
  /\ At(t, "destroying")
  /\ IF t \in Checks
     THEN db' = NoPool /\ open' = open \ {using[t]} /\ Return(t)
     ELSE Exit
  /\ UNCHANGED <<shuttingDown, interval, failures, up>>

TestFails(t) ==
  /\ At(t, "testing") /\ MayFail(using[t])
  /\ StartDestroy(t) \/ DestroyedBefore(t)
  /\ UNCHANGED up

(* SIGINT, SIGTERM or an uncaught exception, perhaps not the first one.     *)
Signal ==
  /\ alive
  /\ StartDestroy(Handler) \/ DestroyedBefore(Handler)
  /\ UNCHANGED up

-----------------------------------------------------------------------------
(* The health check and the recovery.                                      *)

StartCheck(t) ==
  /\ At(t, "idle") /\ interval /\ ~shuttingDown
  /\ Goto(t, "checking", db)
  /\ UNCHANGED <<db, open, shuttingDown, interval, failures, up>>

CheckSucceeds(t) ==
  /\ At(t, "checking") /\ MayAnswer(using[t])
  /\ failures' = 0
  /\ Return(t)
  /\ UNCHANGED <<db, open, shuttingDown, interval, up>>

Counted == IF failures < MaxFailures THEN failures + 1 ELSE failures

CheckFails(t) ==
  /\ At(t, "checking") /\ MayFail(using[t])
  /\ Counted < MaxFailures
  /\ failures' = Counted
  /\ Return(t)
  /\ UNCHANGED <<db, open, shuttingDown, interval, up>>

(* attemptRecovery up to its first await.                                  *)
StartRecovery(t) ==
  IF db = NoPool
  THEN Connect(t, NoPool, open, Counted)
  ELSE db' = NoPool /\ Goto(t, "replacing", db) /\ failures' = Counted /\ UNCHANGED open

LastCheckFails(t) ==
  /\ At(t, "checking") /\ MayFail(using[t])
  /\ Counted >= MaxFailures
  /\ StartRecovery(t)
  /\ UNCHANGED <<shuttingDown, interval, up>>

OldPoolClosed(t) ==
  /\ At(t, "replacing")
  /\ Connect(t, db, open \ {using[t]}, failures)
  /\ UNCHANGED <<shuttingDown, interval, up>>

-----------------------------------------------------------------------------
DatabaseFailsOrRecovers ==
  /\ alive
  /\ up' = ~up
  /\ UNCHANGED <<db, open, shuttingDown, interval, failures, pc, using, alive>>

Check(t) == CheckSucceeds(t) \/ CheckFails(t) \/ LastCheckFails(t)

Test(t) == TestSucceeds(t) \/ TestFails(t)

Next ==
  \/ DatabaseFailsOrRecovers
  \/ Signal
  \/ \E t \in Checks : StartCheck(t) \/ Check(t) \/ OldPoolClosed(t)
  \/ \E t \in Tasks : Test(t) \/ DestroyEnds(t)

Spec == Init /\ [][Next]_vars

(* The interval fires, queries are answered or time out, pools close.      *)
Fairness ==
  /\ \A t \in Checks : WF_vars(StartCheck(t)) /\ WF_vars(Check(t)) /\ WF_vars(OldPoolClosed(t))
  /\ \A t \in Tasks : WF_vars(Test(t)) /\ WF_vars(DestroyEnds(t))

FairSpec == Spec /\ Fairness

-----------------------------------------------------------------------------
(* Properties.                                                             *)

(* Every variable has its type, and only existing pools are tested or      *)
(* closed.                                                                 *)
TypeOK ==
  /\ db \in Pools \cup {NoPool}
  /\ open \subseteq Pools
  /\ failures \in 0..MaxFailures
  /\ shuttingDown \in BOOLEAN /\ interval \in BOOLEAN
  /\ up \in BOOLEAN /\ alive \in BOOLEAN
  /\ pc \in [Tasks -> {"idle", "testing", "checking", "replacing", "destroying"}]
  /\ using \in [Tasks -> Pools \cup {NoPool}]
  /\ \A t \in Tasks : pc[t] \in {"testing", "replacing", "destroying"} => using[t] \in Pools

(* No pool is lost: while the process runs, every pool with open           *)
(* connections is the current one or is being closed, however recoveries   *)
(* overlap with each other and with a shutdown.                            *)
NoPoolIsLost == \A p \in open : p = db \/ p \in Closing

(* getDb never hands out a connection that has been closed: every path     *)
(* that closes a pool forgets it no later than it is closed.               *)
CurrentPoolIsOpen == db # NoPool => db \in open

(* After destroy has begun no pool is opened any more: a recovery under    *)
(* way does not bring the connection back behind the shutdown.             *)
ClosedForGood == [][shuttingDown => open' \subseteq open]_vars

(* A shutdown that has begun closes every pool.                            *)
EverythingIsClosed == shuttingDown ~> open = {}

(* Claim of src/src/database/database-config.ts: a failed recovery is      *)
(* retried ("trigger retry on next interval").  If the database comes back *)
(* for good and nobody stops the process, it gets connected again.         *)
RecoveryIsRetried ==
  <>[](up /\ pc[Handler] = "idle" /\ alive) => []<>(db # NoPool /\ db \in open)
=============================================================================
